---- MODULE Spec2Model ----
(***************************************************************************)
(* A model of the point-cloud tutorial notebook sgp_dl_tutorial.ipynb:     *)
(* the PointNetLayer message-passing layer, the PointNet classifier built  *)
(* from it, and the notebook cells that bind the datasets, construct the   *)
(* model, train and test it and plot a prediction.                         *)
(*                                                                         *)
(* Tensors are modelled over the integers: a [N, C] tensor is a function   *)
(* from the row indices 0..N-1 to tuples of C integers.  Every operation   *)
(* the layer applies (affine map, ReLU, subtraction, maximum) is exact on  *)
(* integers, so the model leaves out floating-point rounding only.         *)
(* A call either returns a value or raises: Ok(v) / Raise(e).              *)
(***************************************************************************)
EXTENDS Integers, Sequences, FiniteSets, TLC

VARIABLES
    layer,          \* a PointNetLayer object a caller constructed, or NoObject
    layerCall,      \* the last PointNetLayer.forward call: its inputs and result
    model,          \* the notebook's global `model` (a PointNet), or NoObject
    netCall,        \* the last PointNet.forward call: its inputs and result
    dataset,        \* the notebook's global `dataset` (cell at line 108)
    train_dataset,  \* the notebook's global `train_dataset` (line 274)
    test_dataset,   \* the notebook's global `test_dataset` (line 276)
    loads,          \* the objects loaded from a dataset so far (__getitem__)
    pc,             \* the notebook line the kernel executes next
    epoch,          \* the loop variable of the epoch loop (line 536)
    pending,        \* train_loader: the objects not yet yielded this epoch
    data,           \* the name `data`: the batch or object being processed
    device,         \* the notebook's global `device` (line 210)
    optimizer,      \* the notebook's global `optimizer` (line 489)
    frame,          \* the names logits, loss, pred and the accumulators
                    \* of the running train() or test()
    report,         \* the globals `loss` and `test_acc` (lines 537-538)
    fault           \* the exception that stopped the notebook, "" if none

\* The state of train(), test() and the cells around them.
trainer == <<device, optimizer, frame, report, fault>>

\* The state of the kernel's control flow and of the training.
kernel == <<pc, epoch, pending, data, device, optimizer, frame, report,
            fault>>

vars == <<layer, layerCall, model, netCall, dataset, train_dataset,
          test_dataset, loads, pc, epoch, pending, data, device, optimizer,
          frame, report, fault>>

-----------------------------------------------------------------------------
(* Bounds of the model.                                                    *)

\* Largest number of points of a cloud handed to forward.
MaxPoints == 3
\* Largest number of edges (columns of edge_index) handed to forward.
MaxEdges == 2
\* Largest channel count a caller passes to PointNetLayer(in, out).
MaxChannels == 2
\* Width of the hidden features of PointNet (32 in the notebook, lines
\* 425-427), scaled down: no operation of the network depends on the width.
HiddenChannels == 2
\* Largest number of classes of a dataset (10 for ModelNet10, line 108).
MaxClasses == 3
\* Number of objects of a split of the dataset.
TrainSize == 3
\* batch_size of the loaders (32 at line 321).
BatchSize == 2
\* Number of epochs of the training loop (50 at line 536).
MaxEpochs == 2
\* Number of neighbours of KNNGraph (k=20 at line 260).
KnnK == 1

\* Dimensionality of a point position (`in_channels + 3`, line 373).
PosDim == 3

\* A name that is not bound to an object (yet); every object has bound = TRUE.
NoObject == [bound |-> FALSE]

-----------------------------------------------------------------------------
(* Results of calls.                                                       *)

Ok(v) == [ok |-> TRUE, err |-> "", val |-> v]
Raise(e) == [ok |-> FALSE, err |-> e, val |-> <<>>]

-----------------------------------------------------------------------------
(* Numbers that are not integers (the loss, the statistics): exact         *)
(* fractions num/den in lowest terms, den > 0.  Rounding of floats is left *)
(* out.                                                                    *)

Abs(x) == IF x < 0 THEN -x ELSE x

RECURSIVE Gcd(_, _)
Gcd(a, b) == IF b = 0 THEN a ELSE Gcd(b, a % b)

Rat(n, d) ==
    LET g == Gcd(Abs(n), d) IN [num |-> n \div g, den |-> d \div g]

RatAdd(a, b) == Rat(a.num * b.den + b.num * a.den, a.den * b.den)
RatTimes(a, k) == Rat(a.num * k, a.den)
RatOver(a, k) == Rat(a.num, a.den * k)
RatLeq(a, b) == a.num * b.den <= b.num * a.den

\* The local names of train() and test() before either has run; `batch`
\* and `log` are bookkeeping of the model: the dataset indices of the
\* current batch, and for every batch processed in this call its indices
\* and the loss of each of its examples.
NoFrame ==
    [fn |-> "", total_loss |-> Rat(0, 1), total_correct |-> 0,
     logits |-> <<>>, loss |-> Rat(0, 1), pred |-> <<>>, next |-> 0,
     batch |-> <<>>, log |-> {}]

\* The globals `loss` and `test_acc` before the first epoch has finished;
\* `trained` and `tested` count the calls that have returned.
NoReport ==
    [loss |-> Rat(0, 1), test_acc |-> Rat(0, 1), trained |-> 0, tested |-> 0]

-----------------------------------------------------------------------------
(* Tensor helpers (torch).                                                 *)

\* Number of rows of a tensor whose rows are indexed 0..N-1.
NumRows(t) == Cardinality(DOMAIN t)

RECURSIVE Dot(_, _, _)
Dot(w, x, k) == IF k = 0 THEN 0 ELSE w[k] * x[k] + Dot(w, x, k - 1)

\* torch.nn.Linear applied to one row x: W x + b, W of shape [out, in].
Linear(lin, x) ==
    [r \in 1..Len(lin.weight) |-> Dot(lin.weight[r], x, Len(x)) + lin.bias[r]]

\* torch.nn.ReLU on one row.
ReLU(x) == [c \in 1..Len(x) |-> IF x[c] > 0 THEN x[c] ELSE 0]

\* torch.cat([a, b], dim=-1) on one row.
Cat(a, b) == a \o b

\* a - b, element-wise, on one row.
Sub(a, b) == [c \in 1..Len(a) |-> a[c] - b[c]]

\* Element-wise maximum of two rows.
MaxRow(a, b) == [c \in 1..Len(a) |-> IF a[c] >= b[c] THEN a[c] ELSE b[c]]

\* A row of zeros.
Zeros(n) == [c \in 1..n |-> 0]

-----------------------------------------------------------------------------
(* Parameter initialisation.  torch draws the initial weights at random;   *)
(* the model draws a seed from Seeds and derives the weights from it.      *)

Seeds == {1, 2}

InitWeight(seed, r, c) == ((seed + 2 * r + 3 * c) % 5) - 2
InitBias(seed, r) == ((seed + r) % 3) - 1

\* torch.nn.Linear(in_features, out_features): the constructor allocates a
\* weight of shape [out_features, in_features]; a negative dimension raises,
\* a zero dimension does not.
NewLinear(in_features, out_features, seed) ==
    [in_features |-> in_features,
     out_features |-> out_features,
     weight |-> [r \in 1..out_features |->
                    [c \in 1..in_features |-> InitWeight(seed, r, c)]],
     bias |-> [r \in 1..out_features |-> InitBias(seed, r)]]

LinearRaises(in_features, out_features) == in_features < 0 \/ out_features < 0

-----------------------------------------------------------------------------
(* PointNetLayer (notebook lines 356-399).                                 *)

\* PointNetLayer.__init__(in_channels, out_channels): aggr='max' and
\* mlp = Sequential(Linear(in_channels + 3, out_channels), ReLU(),
\*                  Linear(out_channels, out_channels)).
\* The constructor checks nothing itself; it raises exactly when one of the
\* two Linear constructors does.
PointNetLayer_init(in_channels, out_channels, seed) ==
    IF \/ LinearRaises(in_channels + PosDim, out_channels)
       \/ LinearRaises(out_channels, out_channels)
    THEN Raise("RuntimeError")
    ELSE Ok([bound |-> TRUE,
             in_channels |-> in_channels,
             out_channels |-> out_channels,
             aggr |-> "max",
             mlp |-> <<NewLinear(in_channels + PosDim, out_channels, seed),
                       NewLinear(out_channels, out_channels, seed + 1)>>])

\* self.mlp(x) on one row: Linear, ReLU, Linear.
mlp(self, x) == Linear(self.mlp[2], ReLU(Linear(self.mlp[1], x)))

\* PointNetLayer.message on the rows of one edge (j -> i).
MessageUsesCentralFeature(self, h_i, h_j, pos_j, pos_i) ==
    mlp(self, Cat(h_i, Sub(pos_j, pos_i)))

message(self, h_i, h_j, pos_j, pos_i) ==
    mlp(self, Cat(h_j, Sub(pos_j, pos_i)))

\* scatter(src, index, dim_size, reduce='max'): the rows of src, taken in
\* their order, are reduced into out[index[k]]; the first row written to an
\* output row replaces the initial zero (include_self=False), a later one is
\* combined with the maximum; an output row that no index names stays zero.
RECURSIVE ScatterLastWins(_, _, _, _, _)
ScatterLastWins(src, index, k, out, seen) ==
    IF k > Len(index) THEN out
    ELSE ScatterLastWins(src, index, k + 1,
                         [out EXCEPT ![index[k]] = src[k]], seen)

RECURSIVE ScatterFillFirst(_, _, _, _, _)
ScatterFillFirst(src, index, k, out, seen) ==
    IF k > Len(index)
    THEN [i \in DOMAIN out |->
             IF i \in seen \/ Len(src) = 0 THEN out[i] ELSE src[1]]
    ELSE LET i == index[k]
             row == IF i \in seen THEN MaxRow(out[i], src[k]) ELSE src[k]
         IN ScatterFillFirst(src, index, k + 1, [out EXCEPT ![i] = row],
                             seen \cup {i})

RECURSIVE ScatterMax(_, _, _, _, _)
ScatterMax(src, index, k, out, seen) ==
    IF k > Len(index) THEN out
    ELSE LET i == index[k]
             row == IF i \in seen THEN MaxRow(out[i], src[k]) ELSE src[k]
         IN ScatterMax(src, index, k + 1, [out EXCEPT ![i] = row],
                       seen \cup {i})

\* A reduction that sizes its output by the largest index it sees.
ScatterInferSize(src, index, dim_size, width) ==
    LET used == {index[k] : k \in 1..Len(index)}
        size == IF used = {} THEN 0
                ELSE 1 + CHOOSE m \in used : \A u \in used : u <= m
    IN ScatterMax(src, index, 1, [i \in 0..(size - 1) |-> Zeros(width)], {})

\* scatter(src, index, dim_size=dim_size, reduce='max'): the output has
\* dim_size rows, zero where no source row is reduced into.
scatter(src, index, dim_size, width) ==
    ScatterMax(src, index, 1, [i \in 0..(dim_size - 1) |-> Zeros(width)], {})

\* index_select along the node dimension: the row an index selects, or
\* OutOfRange (IndexError) for an index outside [0, size); a negative index
\* does not count from the end.
OutOfRange == -1

SelectIndexWraps(index, size) == index % size

SelectIndex(index, size) ==
    IF index >= 0 /\ index < size THEN index ELSE OutOfRange

\* MessagePassing.propagate(edge_index, h=h, pos=pos) with aggr='max'.
\* edge_index is the sequence of its columns <<j, i>>: source j, target i.
\* Collecting h_i, h_j, pos_j, pos_i comes first and raises on an index out
\* of range or on tensors of different row counts; then the messages of all
\* edges are computed and reduced per target.
propagate(self, edge_index, h, pos) ==
    LET N == NumRows(h)
        E == Len(edge_index)
        j(k) == SelectIndex(edge_index[k][1], N)
        i(k) == SelectIndex(edge_index[k][2], N)
    IN IF \E k \in 1..E : i(k) = OutOfRange THEN Raise("IndexError")
       ELSE IF \E k \in 1..E : j(k) = OutOfRange THEN Raise("IndexError")
       ELSE IF NumRows(pos) # N THEN Raise("ValueError")
       ELSE IF Len(h[0]) + PosDim # self.mlp[1].in_features
            THEN Raise("RuntimeError")
       ELSE LET msgs == [k \in 1..E |->
                           message(self, h[i(k)], h[j(k)], pos[j(k)], pos[i(k)])]
                index == [k \in 1..E |-> i(k)]
            IN Ok(scatter(msgs, index, N, self.out_channels))

\* PointNetLayer.forward(h, pos, edge_index).
PointNetLayer_forward(self, h, pos, edge_index) ==
    propagate(self, edge_index, h, pos)

-----------------------------------------------------------------------------
(* Inputs of the forward calls.                                            *)

\* The clouds handed to forward: cloud c has the points 0..N-1, point i at
\* position CloudPos(c, i) with the feature row CloudFeat(c, i, width).
Clouds == {0, 1}

CloudPos(c, i) == [d \in 1..PosDim |-> ((c + i) * d + i) % 3]
CloudFeat(c, i, width) == [k \in 1..width |-> ((c + 2 * i + k) % 3) - 1]

PosOf(c, N) == [i \in 0..(N - 1) |-> CloudPos(c, i)]
FeatOf(c, N, width) == [i \in 0..(N - 1) |-> CloudFeat(c, i, width)]

\* All sequences over S of length at most n.
SeqsUpTo(S, n) == UNION {[1..l -> S] : l \in 0..n}

\* The edge lists over N points: every index valid.
ValidEdgeLists(N) == SeqsUpTo((0..(N - 1)) \X (0..(N - 1)), MaxEdges)

\* An edge to or from point 0 whose other index is one before the first
\* point or one past the last.
BadEdges(N) == {<<-1, 0>>, <<N, 0>>, <<0, -1>>, <<0, N>>}

\* The edge lists with exactly one edge that has an index out of range.
BadEdgeLists(N) ==
    {s \in SeqsUpTo(((0..(N - 1)) \X (0..(N - 1))) \cup BadEdges(N), MaxEdges) :
        Cardinality({k \in 1..Len(s) : s[k] \in BadEdges(N)}) = 1}

EdgeLists(N) == ValidEdgeLists(N) \cup BadEdgeLists(N)

-----------------------------------------------------------------------------------------------------------------------------------------------------
(* A caller of PointNetLayer: constructs a layer, calls forward on it.     *)

\* No call is being made.
NoCall == [made |-> FALSE]

\* The result slot of a call that has not been made.
NoResult == [ok |-> FALSE, err |-> "not called", val |-> <<>>]

\* The arguments a caller is about to pass: the points 0..n-1 of a cloud
\* and an edge list.
LayerArgs(c, n, edge_index) ==
    [made |-> FALSE, cloud |-> c, n |-> n, edge_index |-> edge_index,
     h |-> <<>>, pos |-> <<>>, res |-> NoResult]

\* layer = PointNetLayer(in_channels, out_channels); the name is bound only
\* when the constructor returns.
ConstructLayer(in_channels, out_channels, seed) ==
    LET r == PointNetLayer_init(in_channels, out_channels, seed)
    IN /\ r.ok
       /\ layer' = r.val
       /\ layerCall' = [layerCall EXCEPT !.made = FALSE, !.h = <<>>,
                                         !.pos = <<>>, !.res = NoResult]
       /\ UNCHANGED <<model, netCall, dataset, train_dataset, test_dataset,
                      loads, kernel>>

\* out = layer(h, pos, edge_index): h has one row of layer.in_channels
\* features per point.
LayerForward ==
    /\ layer.bound
    /\ layer.in_channels >= 0
    /\ LET h == FeatOf(layerCall.cloud, layerCall.n, layer.in_channels)
           pos == PosOf(layerCall.cloud, layerCall.n)
       IN layerCall' =
            [layerCall EXCEPT
               !.made = TRUE, !.h = h, !.pos = pos,
               !.res = PointNetLayer_forward(layer, h, pos,
                                             layerCall.edge_index)]
    /\ UNCHANGED <<layer, model, netCall, dataset, train_dataset,
                   test_dataset, loads, kernel>>

\* The layers the forward calls are checked on: (in_channels, out_channels,
\* seed of the initial weights).
LayerShapes == {<<1, 2, 1>>, <<2, 1, 2>>}

\* No cell of the notebook is being executed and no loader is iterated.
KernelIdle ==
    /\ loads = {}
    /\ pc = "idle"
    /\ epoch = 0
    /\ pending = {}
    /\ data = NoObject
    /\ device = "unset"
    /\ optimizer = NoObject
    /\ frame = NoFrame
    /\ report = NoReport
    /\ fault = ""

NotebookIdle ==
    /\ model = NoObject
    /\ dataset = NoObject
    /\ train_dataset = NoObject
    /\ test_dataset = NoObject
    /\ KernelIdle

InitLayer ==
    /\ \E shape \in LayerShapes :
          layer = PointNetLayer_init(shape[1], shape[2], shape[3]).val
    /\ \E c \in Clouds, n \in 1..MaxPoints :
          \E edge_index \in EdgeLists(n) :
             layerCall = LayerArgs(c, n, edge_index)
    /\ netCall = NoCall
    /\ NotebookIdle

NextLayer == LayerForward

SpecLayer == InitLayer /\ [][NextLayer]_vars

-----------------------------------------------------------------------------
(* Properties of PointNetLayer.forward.                                    *)

\* The bijections of a finite set onto itself.
Perms(S) == {f \in [S -> S] : \A a, b \in S : f[a] = f[b] => a = b}

\* The same edges listed in the order q.
ReorderEdges(edge_index, q) == [k \in 1..Len(edge_index) |-> edge_index[q[k]]]

\* Point i renumbered to p[i]; an index that names no point is left alone.
RenumberIndex(p, x) == IF x \in DOMAIN p THEN p[x] ELSE x
RenumberEdges(edge_index, p) ==
    [k \in 1..Len(edge_index) |->
        <<RenumberIndex(p, edge_index[k][1]), RenumberIndex(p, edge_index[k][2])>>]
RenumberRows(t, p) ==
    [m \in DOMAIN t |-> t[CHOOSE i \in DOMAIN t : p[i] = m]]

\* The edges of the call that end in point i.
EdgesInto(edge_index, i) == {k \in 1..Len(edge_index) : edge_index[k][2] = i}

SetMax(S) == CHOOSE m \in S : \A x \in S : x <= m

LayerCallOk == layerCall.made /\ layerCall.res.ok

\* C1: PointNetLayer.forward is permutation-invariant: listing the same
\* edges in another order leaves the output unchanged, and renumbering the
\* points (h, pos and the edge indices relabelled consistently) yields the
\* same output rows, moved to the points' new indices.
C1_PermutationInvariant ==
    LayerCallOk =>
        LET c == layerCall
            pts == DOMAIN c.h
        IN /\ \A q \in Perms(1..Len(c.edge_index)) :
                PointNetLayer_forward(layer, c.h, c.pos,
                                      ReorderEdges(c.edge_index, q)) = c.res
           /\ \A p \in Perms(pts) :
                LET r == PointNetLayer_forward(layer, RenumberRows(c.h, p),
                             RenumberRows(c.pos, p),
                             RenumberEdges(c.edge_index, p))
                IN r.ok /\ \A i \in pts : r.val[p[i]] = c.res.val[i]

\* A call in which the order of the edges and the numbering of the points
\* could show: two edges from different sources into one point with
\* different messages, and two points with different output rows.
C1_Witness ==
    /\ LayerCallOk
    /\ \E k1, k2 \in 1..Len(layerCall.edge_index) :
          LET e1 == layerCall.edge_index[k1]
              e2 == layerCall.edge_index[k2]
          IN /\ e1[2] = e2[2]
             /\ e1[1] # e2[1]
             /\ message(layer, layerCall.h[e1[2]], layerCall.h[e1[1]],
                        layerCall.pos[e1[1]], layerCall.pos[e1[2]])
                # message(layer, layerCall.h[e2[2]], layerCall.h[e2[1]],
                          layerCall.pos[e2[1]], layerCall.pos[e2[2]])
    /\ \E a, b \in DOMAIN layerCall.h :
          layerCall.res.val[a] # layerCall.res.val[b]

\* C4: for every point i with an incoming edge, the output row is, channel
\* by channel, the largest value over the edges (j, i) of the edge transform
\* applied to the source's feature h_j concatenated with pos_j - pos_i;
\* neither h_i nor an edge with another destination enters it.
C4_MaxOfSourceMessages ==
    LayerCallOk =>
        LET c == layerCall
            EdgeMessage(k) ==
                LET j == c.edge_index[k][1]
                    i == c.edge_index[k][2]
                IN Linear(layer.mlp[2], ReLU(Linear(layer.mlp[1],
                       c.h[j] \o [d \in 1..PosDim |-> c.pos[j][d] - c.pos[i][d]])))
        IN \A i \in DOMAIN c.h :
              EdgesInto(c.edge_index, i) # {} =>
                 /\ Len(c.res.val[i]) = layer.out_channels
                 /\ \A ch \in 1..layer.out_channels :
                       c.res.val[i][ch] =
                          SetMax({EdgeMessage(k)[ch] :
                                     k \in EdgesInto(c.edge_index, i)})

\* A call with two edges into one point whose output row is neither of the
\* two messages alone, the point's own feature differing from the sources'.
C4_Witness ==
    /\ LayerCallOk
    /\ layer.in_channels > 0
    /\ \E k1, k2 \in 1..Len(layerCall.edge_index) :
          LET e1 == layerCall.edge_index[k1]
              e2 == layerCall.edge_index[k2]
              i == e1[2]
              m1 == message(layer, layerCall.h[i], layerCall.h[e1[1]],
                            layerCall.pos[e1[1]], layerCall.pos[i])
              m2 == message(layer, layerCall.h[i], layerCall.h[e2[1]],
                            layerCall.pos[e2[1]], layerCall.pos[i])
          IN /\ e2[2] = i
             /\ layerCall.h[e1[1]] # layerCall.h[i]
             /\ layerCall.res.val[i] # m1
             /\ layerCall.res.val[i] # m2

\* Every index of the edge list names a point.
EdgesValid(edge_index, n) ==
    \A k \in 1..Len(edge_index) :
        edge_index[k][1] \in 0..(n - 1) /\ edge_index[k][2] \in 0..(n - 1)

C6_OutOfRangeRejected ==
    (layerCall.made /\ ~EdgesValid(layerCall.edge_index, layerCall.n)) =>
        /\ ~layerCall.res.ok
        /\ layerCall.res.err = "IndexError"
        /\ layerCall.res.val = <<>>

\* A rejected call whose edge list names index N, and one that names -1.
C6_Witness ==
    /\ layerCall.made
    /\ ~layerCall.res.ok
    /\ \E k \in 1..Len(layerCall.edge_index) :
          layerCall.edge_index[k][2] = layerCall.n
    /\ Len(layerCall.edge_index) = MaxEdges

-----------------------------------------------------------------------------
(* PointNet (notebook lines 420-445).                                      *)

\* batch=None (a single Data object), or the tensor of per-point object ids.
BatchNone == [none |-> TRUE, ids |-> <<>>]
BatchOf(ids) == [none |-> FALSE, ids |-> ids]

\* The rows of a tensor as a sequence, in index order.
RowSeq(t) == [k \in 1..NumRows(t) |-> t[k - 1]]

RECURSIVE MaxOverRows(_, _)
MaxOverRows(rows, k) ==
    IF k = 1 THEN rows[1] ELSE MaxRow(MaxOverRows(rows, k - 1), rows[k])

\* The largest id of an id tensor, plus one (0 for an empty tensor).
DimSize(ids) ==
    IF DOMAIN ids = {} THEN 0
    ELSE 1 + CHOOSE m \in {ids[i] : i \in DOMAIN ids} :
                 \A i \in DOMAIN ids : ids[i] <= m

\* global_max_pool(x, batch): with batch=None the maximum over all rows,
\* kept as one row; else scatter(x, batch, dim_size=max(batch)+1, 'max').
\* The id tensor is broadcast against x, which needs one id per row of x or
\* a single id; a negative id is out of bounds of the output.  No other
\* property of the ids is checked.
PoolFirstRow(x, batch) ==
    IF batch.none THEN Ok([b \in {0} |-> x[0]])
    ELSE LET ids == batch.ids
             N == NumRows(x)
             L == NumRows(ids)
             index == [k \in 1..N |-> IF L = 1 THEN ids[0] ELSE ids[k - 1]]
         IN IF L # N /\ L # 1 THEN Raise("RuntimeError")
            ELSE IF \E i \in DOMAIN ids : ids[i] < 0 THEN Raise("RuntimeError")
            ELSE Ok([b \in 0..(DimSize(ids) - 1) |->
                       IF \E k \in 1..N : index[k] = b
                       THEN x[(CHOOSE k \in 1..N :
                                  /\ index[k] = b
                                  /\ \A m \in 1..(k - 1) : index[m] # b) - 1]
                       ELSE Zeros(Len(x[0]))])

PoolIgnoresIds(x, batch) ==
    IF batch.none THEN Ok([b \in {0} |-> MaxOverRows(RowSeq(x), NumRows(x))])
    ELSE LET ids == batch.ids
             N == NumRows(x)
             L == NumRows(ids)
         IN IF L # N /\ L # 1 THEN Raise("RuntimeError")
            ELSE IF \E i \in DOMAIN ids : ids[i] < 0 THEN Raise("RuntimeError")
            ELSE Ok([b \in 0..(DimSize(ids) - 1) |->
                       MaxOverRows(RowSeq(x), N)])

global_max_pool(x, batch) ==
    IF batch.none THEN Ok([b \in {0} |-> MaxOverRows(RowSeq(x), NumRows(x))])
    ELSE LET ids == batch.ids
             N == NumRows(x)
             L == NumRows(ids)
             index == [k \in 1..N |-> IF L = 1 THEN ids[0] ELSE ids[k - 1]]
         IN IF L # N /\ L # 1 THEN Raise("RuntimeError")
            ELSE IF \E i \in DOMAIN ids : ids[i] < 0 THEN Raise("RuntimeError")
            ELSE Ok(scatter(RowSeq(x), index, DimSize(ids), Len(x[0])))

\* The .grad of the parameters of a model on which no backward pass has
\* been accumulated (None); `from` lists the batches whose backward passes
\* are accumulated in it.
NoGrad == [set |-> FALSE, bias |-> <<>>, from |-> <<>>]

\* PointNet.__init__(self): takes no argument, so a call that passes any
\* raises TypeError; the size of the classifier is read from the global
\* name `dataset` when the constructor runs.
PointNet_init(args, dataset_global, seed) ==
    IF args # <<>> THEN Raise("TypeError")
    ELSE IF ~dataset_global.bound THEN Raise("NameError")
    ELSE IF LinearRaises(HiddenChannels, dataset_global.num_classes)
    THEN Raise("RuntimeError")
    ELSE Ok([bound |-> TRUE,
             training |-> TRUE,
             device |-> "cpu",
             grad |-> NoGrad,
             conv1 |-> PointNetLayer_init(PosDim, HiddenChannels, seed).val,
             conv2 |-> PointNetLayer_init(HiddenChannels, HiddenChannels,
                                          seed + 2).val,
             classifier |-> NewLinear(HiddenChannels,
                                      dataset_global.num_classes, seed + 4)])

\* h.relu() on every row.
relu(h) == [i \in DOMAIN h |-> ReLU(h[i])]

\* The two layers without the ReLU between them.
FeaturesWithoutReLU(self, pos, edge_index) ==
    LET r1 == PointNetLayer_forward(self.conv1, pos, pos, edge_index)
    IN IF ~r1.ok THEN r1
       ELSE LET r2 == PointNetLayer_forward(self.conv2, r1.val, pos,
                                            edge_index)
            IN IF ~r2.ok THEN r2 ELSE Ok(relu(r2.val))

\* PointNet.forward up to the second ReLU (lines 436-439): the feature row
\* of every point after the two layers of message passing.
PointNet_features(self, pos, edge_index) ==
    LET r1 == PointNetLayer_forward(self.conv1, pos, pos, edge_index)
    IN IF ~r1.ok THEN r1
       ELSE LET r2 == PointNetLayer_forward(self.conv2, relu(r1.val), pos,
                                            edge_index)
            IN IF ~r2.ok THEN r2 ELSE Ok(relu(r2.val))

\* PointNet.forward up to the global pooling (lines 436-442): the pooled
\* feature row of every object.
PointNet_pooled(self, pos, edge_index, batch) ==
    LET h == PointNet_features(self, pos, edge_index)
    IN IF ~h.ok THEN h ELSE global_max_pool(h.val, batch)

\* PointNet.forward(pos, edge_index, batch): the classifier applied to every
\* pooled row.
PointNet_forward(self, pos, edge_index, batch) ==
    LET pooled == PointNet_pooled(self, pos, edge_index, batch)
    IN IF ~pooled.ok THEN pooled
       ELSE Ok([b \in DOMAIN pooled.val |->
                   Linear(self.classifier, pooled.val[b])])

-----------------------------------------------------------------------------
(* A caller of PointNet.forward.                                           *)

\* The models the forward calls are checked on: (number of classes of the
\* dataset bound when the model is constructed, seed of the initial weights).
NetModels == {<<2, 3>>, <<3, 1>>}

\* The per-point object ids of well-formed batches of n points: sorted, the
\* ids 0..B-1 all present (what the DataLoader produces), at most two objects.
LoaderBatches(n) ==
    {[i \in 0..(n - 1) |-> IF i < k THEN 0 ELSE 1] : k \in 1..n}

\* Arbitrary id tensors for n points: any ids from -1..2 per point, and
\* tensors of zeros of another length.
AnyBatches(n) ==
    [0..(n - 1) -> -1..2]
    \cup {[i \in 0..(l - 1) |-> 0] : l \in (0..(n + 1)) \ {n}}

\* Edge lists of a batch with the object ids `ids`: no self loop
\* (KNNGraph(loop=False)) and no edge between two objects.
GraphEdgeLists(ids) ==
    SeqsUpTo({e \in (DOMAIN ids) \X (DOMAIN ids) :
                 e[1] # e[2] /\ ids[e[1]] = ids[e[2]]}, MaxEdges)

\* The arguments of a PointNet.forward call.
NetArgs(c, n, edge_index, batch) ==
    [made |-> FALSE, pos |-> PosOf(c, n), edge_index |-> edge_index,
     batch |-> batch, res |-> NoResult]

\* logits = model(pos, edge_index, batch)
NetForward ==
    /\ model.bound
    /\ netCall' = [netCall EXCEPT
                     !.made = TRUE,
                     !.res = PointNet_forward(model, netCall.pos,
                                              netCall.edge_index,
                                              netCall.batch)]
    /\ UNCHANGED <<layer, layerCall, model, dataset, train_dataset,
                   test_dataset, loads, kernel>>

\* A dataset object as far as the model's constructor reads it.
DatasetWithClasses(nc) == [bound |-> TRUE, num_classes |-> nc]

\* The model is constructed while `dataset` is bound.  The calls: batches
\* as the DataLoader collates them on a three-class model; arbitrary id
\* tensors, and a single object with batch=None, on every model.
InitNet ==
    /\ layer = NoObject
    /\ layerCall = NoCall
    /\ \E m \in NetModels :
          /\ dataset = DatasetWithClasses(m[1])
          /\ model = PointNet_init(<<>>, dataset, m[2]).val
          /\ \E n \in 1..MaxPoints :
                \/ /\ m[1] = 3
                   /\ \E ids \in LoaderBatches(n) :
                         \E edge_index \in GraphEdgeLists(ids) :
                            netCall = NetArgs(0, n, edge_index, BatchOf(ids))
                \/ \E edge_index \in SeqsUpTo({<<0, 0>>}, 1),
                      ids \in AnyBatches(n) :
                         netCall = NetArgs(1, n, edge_index, BatchOf(ids))
                \/ \E edge_index \in GraphEdgeLists([i \in 0..(n - 1) |-> 0]) :
                      /\ Len(edge_index) <= 1
                      /\ netCall = NetArgs(1, n, edge_index, BatchNone)
    /\ train_dataset = NoObject
    /\ test_dataset = NoObject
    /\ KernelIdle

NextNet == NetForward

SpecNet == InitNet /\ [][NextNet]_vars

-----------------------------------------------------------------------------
(* Properties of PointNet.forward.                                         *)

NetCallOk == netCall.made /\ netCall.res.ok

\* The id tensor with the ids moved along with the renumbered points (an
\* id tensor that is not one id per point is left as it is).
RenumberBatch(batch, p) ==
    IF batch.none \/ DOMAIN batch.ids # DOMAIN p THEN batch
    ELSE BatchOf(RenumberRows(batch.ids, p))

\* C2: the logits of PointNet.forward do not change when the points are
\* renumbered (pos, the object ids and the edge indices relabelled
\* consistently) or when the edges are listed in another order.
C2_NetPermutationInvariant ==
    NetCallOk =>
        LET c == netCall
        IN /\ \A q \in Perms(1..Len(c.edge_index)) :
                PointNet_forward(model, c.pos, ReorderEdges(c.edge_index, q),
                                 c.batch) = c.res
           /\ \A p \in Perms(DOMAIN c.pos) :
                PointNet_forward(model, RenumberRows(c.pos, p),
                                 RenumberEdges(c.edge_index, p),
                                 RenumberBatch(c.batch, p)) = c.res

\* A call with two different edges on an object of at least two points whose
\* pooled row is not the feature row of its first point.
C2_Witness ==
    /\ NetCallOk
    /\ ~netCall.batch.none
    /\ Len(netCall.edge_index) >= 2
    /\ netCall.edge_index[1] # netCall.edge_index[2]
    /\ \E i \in DOMAIN netCall.pos :
          /\ i > 0
          /\ netCall.batch.ids[i] = netCall.batch.ids[0]
    /\ PointNet_features(model, netCall.pos, netCall.edge_index).val[0]
       # PointNet_pooled(model, netCall.pos, netCall.edge_index,
                         netCall.batch).val[netCall.batch.ids[0]]

\* The batch holds exactly the objects 0 (points 0..k-1) and 1 (points
\* k..n-1), and no edge joins a point of one to a point of the other.
TwoObjects(c, k) ==
    /\ ~c.batch.none
    /\ DOMAIN c.batch.ids = DOMAIN c.pos
    /\ k \in 1..(NumRows(c.pos) - 1)
    /\ \A i \in DOMAIN c.pos : c.batch.ids[i] = (IF i < k THEN 0 ELSE 1)
    /\ \A e \in 1..Len(c.edge_index) :
          (c.edge_index[e][1] < k) = (c.edge_index[e][2] < k)

\* The edges from index e on whose target is one of the points lo..hi,
\* renumbered so that point lo becomes point 0.
RECURSIVE EdgesOf(_, _, _, _)
EdgesOf(edge_index, lo, hi, e) ==
    IF e > Len(edge_index) THEN <<>>
    ELSE (IF edge_index[e][2] \in lo..hi
          THEN <<<<edge_index[e][1] - lo, edge_index[e][2] - lo>>>>
          ELSE <<>>) \o EdgesOf(edge_index, lo, hi, e + 1)

\* The object made of the points lo..hi of the call, passed alone.
Alone(c, lo, hi) ==
    [pos |-> [i \in 0..(hi - lo) |-> c.pos[i + lo]],
     edge_index |-> EdgesOf(c.edge_index, lo, hi, 1),
     batch |-> BatchOf([i \in 0..(hi - lo) |-> 0])]

\* C3: for two objects batched together without an edge between them, the
\* pooled row and the logits of each are those the model produces for the
\* object passed alone.
C3_BatchIndependent ==
    \A k \in 1..MaxPoints :
        (NetCallOk /\ TwoObjects(netCall, k)) =>
            LET n == NumRows(netCall.pos)
                a == Alone(netCall, 0, k - 1)
                b == Alone(netCall, k, n - 1)
                pooled == PointNet_pooled(model, netCall.pos,
                                          netCall.edge_index, netCall.batch)
            IN /\ DOMAIN netCall.res.val = {0, 1}
               /\ netCall.res.val[0] =
                    PointNet_forward(model, a.pos, a.edge_index, a.batch).val[0]
               /\ pooled.val[0] =
                    PointNet_pooled(model, a.pos, a.edge_index, a.batch).val[0]
               /\ netCall.res.val[1] =
                    PointNet_forward(model, b.pos, b.edge_index, b.batch).val[0]
               /\ pooled.val[1] =
                    PointNet_pooled(model, b.pos, b.edge_index, b.batch).val[0]

\* A batch of two objects with different pooled rows, the first with two
\* points and an edge between them.
C3_Witness ==
    /\ NetCallOk
    /\ \E k \in 2..MaxPoints :
          /\ TwoObjects(netCall, k)
          /\ \E e \in 1..Len(netCall.edge_index) : netCall.edge_index[e][2] < k
          /\ LET pooled == PointNet_pooled(model, netCall.pos,
                                           netCall.edge_index, netCall.batch)
             IN pooled.val[0] # pooled.val[1]

\* The ids are one per point and are exactly 0..B-1 for some B.
IdsWellFormed(batch, n) ==
    \/ batch.none
    \/ /\ DOMAIN batch.ids = 0..(n - 1)
       /\ {batch.ids[i] : i \in DOMAIN batch.ids} = 0..(DimSize(batch.ids) - 1)

\* C7 (as claimed): PointNet.forward fails when the object ids are not
\* one per point and exactly the contiguous ids 0..B-1, and it never returns
\* a logits row for an object without points.
C7_MalformedIdsRejected ==
    netCall.made =>
        /\ ~IdsWellFormed(netCall.batch, NumRows(netCall.pos)) => ~netCall.res.ok
        /\ (netCall.res.ok /\ ~netCall.batch.none) =>
              \A b \in DOMAIN netCall.res.val :
                 \E i \in DOMAIN netCall.batch.ids : netCall.batch.ids[i] = b

\* The points of a call that carry the object id b (all points for
\* batch=None).
PointsOf(c, b) ==
    IF c.batch.none THEN DOMAIN c.pos
    ELSE {i \in DOMAIN c.pos : c.batch.ids[i] = b}

\* C13: for ids that are one per point and contiguous from 0 (or
\* batch=None), the logits row of every object is the classifier applied to
\* the element-wise maximum, over exactly the points of that object, of
\* ReLU(layer 2(ReLU(layer 1(pos, pos, edges)), pos, edges)).
C13_ForwardComposition ==
    (NetCallOk /\ IdsWellFormed(netCall.batch, NumRows(netCall.pos))) =>
        LET c == netCall
            h1 == PointNetLayer_forward(model.conv1, c.pos, c.pos,
                                        c.edge_index).val
            a1 == [i \in DOMAIN c.pos |-> ReLU(h1[i])]
            h2 == PointNetLayer_forward(model.conv2, a1, c.pos,
                                        c.edge_index).val
            a2 == [i \in DOMAIN c.pos |-> ReLU(h2[i])]
            B == IF c.batch.none THEN 1 ELSE DimSize(c.batch.ids)
        IN /\ DOMAIN c.res.val = 0..(B - 1)
           /\ \A b \in 0..(B - 1) :
                 c.res.val[b] =
                    Linear(model.classifier,
                           [k \in 1..HiddenChannels |->
                              SetMax({a2[i][k] : i \in PointsOf(c, b)})])

\* A call on a batch of two objects with an edge, where the first layer
\* gives some point a negative feature and the two logits rows differ.
C13_Witness ==
    /\ NetCallOk
    /\ ~netCall.batch.none
    /\ IdsWellFormed(netCall.batch, NumRows(netCall.pos))
    /\ DimSize(netCall.batch.ids) = 2
    /\ netCall.edge_index # <<>>
    /\ netCall.res.val[0] # netCall.res.val[1]
    /\ LET h1 == PointNetLayer_forward(model.conv1, netCall.pos, netCall.pos,
                                       netCall.edge_index).val
       IN \E i \in DOMAIN h1 : \E k \in 1..HiddenChannels : h1[i][k] < 0

-----------------------------------------------------------------------------
(* A caller of both forward passes on the same cloud and edge list.        *)

\* A layer and a model exist (the layer of two output columns beside the
\* model of three classes, the layer of one beside the model of two); the
\* same points and the same valid edge list are ready for a call of each,
\* the model's with batch=None or with the ids of a batch the loaders
\* collate.
InitShape ==
    /\ \E shape \in LayerShapes, m \in NetModels :
          /\ m[1] = shape[2] + 1
          /\ layer = PointNetLayer_init(shape[1], shape[2], shape[3]).val
          /\ dataset = DatasetWithClasses(m[1])
          /\ model = PointNet_init(<<>>, dataset, m[2]).val
    /\ \E n \in 1..MaxPoints :
          \E edge_index \in ValidEdgeLists(n) :
             /\ layerCall = LayerArgs(0, n, edge_index)
             /\ \E batch \in {BatchNone} \cup
                             {BatchOf(ids) : ids \in LoaderBatches(n)} :
                   netCall = NetArgs(0, n, edge_index, batch)
    /\ train_dataset = NoObject
    /\ test_dataset = NoObject
    /\ KernelIdle

NextShape == LayerForward \/ NetForward

SpecShape == InitShape /\ [][NextShape]_vars

\* C14: on N points with in_channels feature columns and a valid edge
\* list, PointNetLayer.forward succeeds and returns one row of out_channels
\* columns for each of the N points; on a batch of B objects
\* PointNet.forward succeeds and returns B rows of num_classes columns.
C14_OutputShapes ==
    /\ layerCall.made =>
          /\ layerCall.res.ok
          /\ DOMAIN layerCall.res.val = 0..(layerCall.n - 1)
          /\ \A i \in DOMAIN layerCall.res.val :
                Len(layerCall.res.val[i]) = layer.out_channels
    /\ netCall.made =>
          /\ netCall.res.ok
          /\ DOMAIN netCall.res.val =
                0..((IF netCall.batch.none THEN 1
                     ELSE Cardinality({netCall.batch.ids[i] :
                                         i \in DOMAIN netCall.batch.ids})) - 1)
          /\ \A b \in DOMAIN netCall.res.val :
                Len(netCall.res.val[b]) = dataset.num_classes

\* Both calls have been made on three points of which the last is neither
\* source nor target of an edge, the model's on a batch of two objects.
C14_Witness ==
    /\ layerCall.made /\ layerCall.res.ok
    /\ netCall.made /\ netCall.res.ok
    /\ layerCall.n = 3
    /\ layerCall.edge_index # <<>>
    /\ \A e \in 1..Len(layerCall.edge_index) :
          layerCall.edge_index[e][1] # 2 /\ layerCall.edge_index[e][2] # 2
    /\ ~netCall.batch.none
    /\ NumRows(netCall.res.val) = 2

-----------------------------------------------------------------------------
(* A caller constructing layers and networks.                              *)

\* model = PointNet(*args), called while `dataset` is bound as it is; the
\* name is bound only when the constructor returns.
ConstructNet(args, seed) ==
    LET r == PointNet_init(args, dataset, seed)
    IN /\ r.ok
       /\ model' = r.val
       /\ UNCHANGED <<layer, layerCall, netCall, dataset, train_dataset,
                      test_dataset, loads, kernel>>

\* The channel counts a caller passes: negative, zero and positive.
ChannelCounts == -1..MaxChannels

\* The argument tuples a caller passes to PointNet: none, or a class count.
CtorArgs == {<<>>} \cup {<<nc>> : nc \in 0..MaxClasses}

\* No layer and no model exist yet; `dataset` is bound to a dataset of
\* 0 (no labels) to MaxClasses classes; an input for the layer is ready.
InitCtor ==
    /\ layer = NoObject
    /\ model = NoObject
    /\ netCall = NoCall
    /\ \E nc \in 0..MaxClasses : dataset = DatasetWithClasses(nc)
    /\ \E n \in 1..MaxPoints :
          \E edge_index \in SeqsUpTo((0..(n - 1)) \X (0..(n - 1)), 1) :
             layerCall = LayerArgs(0, n, edge_index)
    /\ train_dataset = NoObject
    /\ test_dataset = NoObject
    /\ KernelIdle

NextCtor ==
    \/ \E in_channels \in ChannelCounts, out_channels \in ChannelCounts,
          seed \in Seeds : ConstructLayer(in_channels, out_channels, seed)
    \/ LayerForward
    \/ \E args \in CtorArgs, seed \in Seeds : ConstructNet(args, seed)

SpecCtor == InitCtor /\ [][NextCtor]_vars

\* C8 (as claimed): no PointNetLayer exists with a channel count that is
\* not positive, and no PointNet exists with a class count that is not
\* positive: their constructors reject such values.
C8_NonPositiveSizesRejected ==
    /\ layer.bound => layer.in_channels > 0 /\ layer.out_channels > 0
    /\ model.bound => Len(model.classifier.weight) > 0

-----------------------------------------------------------------------------
(* The datasets of the notebook (torch_geometric ModelNet).                *)

\* The names of the pre-transforms (lines 257-261), in the order applied.
PreTransformNames == <<"NormalizeScale", "SamplePoints", "KNNGraph">>

\* The names of the transforms of `transform` (lines 266-271).
TransformNames ==
    <<"RandomScale", "RandomRotate0", "RandomRotate1", "RandomRotate2">>

\* The scale factors RandomScale((0.85, 1.15)) draws from, in percent, and
\* the angles RandomRotate(45, axis) draws from, in degrees.
Scales == {85, 100, 115}
Angles == {-45, 0, 45}

\* No augmentation has been applied to an object.
NoAug == [applied |-> FALSE, scale |-> 100, angles |-> <<0, 0, 0>>]

\* Squared distance of two positions.
Dist2(a, b) == Dot(Sub(a, b), Sub(a, b), PosDim)

\* Point a is a nearer neighbour of point i than point b is (ties go to
\* the lower index).
Nearer(pos, i, a, b) ==
    \/ Dist2(pos[a], pos[i]) < Dist2(pos[b], pos[i])
    \/ Dist2(pos[a], pos[i]) = Dist2(pos[b], pos[i]) /\ a < b

\* The number of points that are nearer neighbours of i than j is.
Rank(pos, i, j) ==
    Cardinality({m \in DOMAIN pos \ {i, j} : Nearer(pos, i, m, j)})

\* KNNGraph(k, loop=False): an edge j -> i from each of the k nearest
\* neighbours j of every point i, never from i itself; the edges from index
\* (i, r) on, ordered by target and then by rank.
RECURSIVE KnnEdges(_, _, _, _)
KnnEdges(pos, k, i, r) ==
    IF i >= NumRows(pos) THEN <<>>
    ELSE IF r >= k \/ r >= NumRows(pos) - 1 THEN KnnEdges(pos, k, i + 1, 0)
    ELSE LET j == CHOOSE m \in DOMAIN pos \ {i} : Rank(pos, i, m) = r
         IN <<<<j, i>>>> \o KnnEdges(pos, k, i, r + 1)

\* Object k of a split as it is on disk: a mesh with its class label.
RawObject(train, k, num_classes) ==
    [pos |-> PosOf(IF train THEN k ELSE k + 1, MaxPoints),
     edge_index |-> <<>>,
     y |-> k % num_classes,
     history |-> <<>>,
     aug |-> NoAug,
     device |-> "cpu"]

\* pre_transform (lines 257-261) applied to an object: the cloud sampled
\* from the mesh gets its nearest-neighbour graph.
pre_transform(d) ==
    [d EXCEPT !.edge_index = KnnEdges(d.pos, KnnK, 0, 0),
              !.history = @ \o PreTransformNames]

\* transform (lines 266-271) applied to an object with the scale factor and
\* the three angles it draws.
transform(d, draw) ==
    [d EXCEPT !.aug = [applied |-> TRUE, scale |-> draw[1],
                       angles |-> draw[2]],
              !.history = @ \o TransformNames]

\* ModelNet(root='data', name='10', train=..., transform=...,
\* pre_transform=..., force_reload=True): the objects on disk are processed
\* once, by the pre-transform if one is given, and stored; the transform,
\* if one is given, is kept for the loads.
ModelNet(train, has_transform, has_pre_transform, num_classes) ==
    [bound |-> TRUE,
     train |-> train,
     transform |-> has_transform,
     pre_transform |-> has_pre_transform,
     num_classes |-> num_classes,
     objects |-> [k \in 0..(TrainSize - 1) |->
                   IF has_pre_transform
                   THEN pre_transform(RawObject(train, k, num_classes))
                   ELSE RawObject(train, k, num_classes)]]

\* What the transform of a dataset draws for one load.
Draws(ds) ==
    IF ds.transform THEN Scales \X [1..3 -> Angles] ELSE {<<>>}

\* Dataset.__getitem__(idx): a copy of the stored object, passed through
\* the dataset's transform when it has one.
GetItem(ds, idx, draw) ==
    IF ds.transform THEN transform(ds.objects[idx], draw) ELSE ds.objects[idx]

\* The record of one load: the name of the dataset, the line that loaded,
\* the index and the object returned.
Load(name, line, idx, d) == [source |-> name, at |-> line, idx |-> idx, d |-> d]

-----------------------------------------------------------------------------
(* The loaders (torch_geometric DataLoader, lines 321-326).                *)

\* The number of points of the first k objects of a list.
RECURSIVE Offset(_, _)
Offset(items, k) ==
    IF k = 0 THEN 0 ELSE Offset(items, k - 1) + NumRows(items[k].pos)

\* The object of a list that holds point i of the collated batch.
OwnerOf(items, i) ==
    CHOOSE k \in 1..Len(items) : Offset(items, k - 1) <= i /\ i < Offset(items, k)

\* The edges of the objects from object k on, renumbered to the points of
\* the collated batch.
RECURSIVE CollateEdges(_, _)
CollateEdges(items, k) ==
    IF k > Len(items) THEN <<>>
    ELSE [e \in 1..Len(items[k].edge_index) |->
            <<items[k].edge_index[e][1] + Offset(items, k - 1),
              items[k].edge_index[e][2] + Offset(items, k - 1)>>]
         \o CollateEdges(items, k + 1)

\* Batch.from_data_list: the objects of a list as one graph; object k of
\* the list (from 1) gets the id k - 1.
Collate(items) ==
    [bound |-> TRUE,
     pos |-> [i \in 0..(Offset(items, Len(items)) - 1) |->
                LET k == OwnerOf(items, i)
                IN items[k].pos[i - Offset(items, k - 1)]],
     edge_index |-> CollateEdges(items, 1),
     batch |-> BatchOf([i \in 0..(Offset(items, Len(items)) - 1) |->
                          OwnerOf(items, i) - 1]),
     y |-> [k \in 1..Len(items) |-> items[k].y],
     aug |-> [k \in 1..Len(items) |-> items[k].aug],
     num_graphs |-> Len(items),
     device |-> "cpu"]

\* The sequences of n different elements of S.
OrderedPicks(S, n) ==
    {q \in [1..n -> S] : \A a, b \in 1..n : a # b => q[a] # q[b]}

Min(a, b) == IF a <= b THEN a ELSE b

-----------------------------------------------------------------------------
(* The operations of the training cell (lines 486-533).                    *)

\* The devices torch.cuda.is_available() selects between (line 210).
Devices == {"cpu", "cuda"}

\* x.to(device) for a model, a batch or an object.
to(x, dev) == [x EXCEPT !.device = dev]

\* tensor.numpy(): only a tensor on the CPU converts.
numpy(x) == IF x.device = "cpu" THEN Ok(x.pos) ELSE Raise("TypeError")

\* model.train() and model.eval(): they set the mode flag only.
model_train(m) == [m EXCEPT !.training = TRUE]
model_eval(m) == [m EXCEPT !.training = FALSE]

\* torch.optim.Adam(model.parameters(), lr=0.01); `steps` counts the calls
\* of step, `moved` those that changed a parameter, `since` lists the
\* operations of the training run since the last step.
Adam == [bound |-> TRUE, steps |-> 0, moved |-> 0, since |-> <<>>]

\* The batch attribute of a batch, None for a single object.
BatchAttr(d) == IF "batch" \in DOMAIN d THEN d.batch ELSE BatchNone

\* model(data.pos, data.edge_index, data.batch); model and data must be on
\* the same device.
Call(m, d) ==
    IF m.device # d.device THEN Raise("RuntimeError")
    ELSE PointNet_forward(m, d.pos, d.edge_index, BatchAttr(d))

\* row.argmax(): the first class (from 0) with the largest logit.
ArgMaxRow(row) ==
    (CHOOSE k \in 1..Len(row) :
        \A j \in 1..Len(row) : row[j] < row[k] \/ (row[j] = row[k] /\ k <= j))
    - 1

\* logits.argmax(dim=-1)
argmax(logits) == [b \in DOMAIN logits |-> ArgMaxRow(logits[b])]

\* The loss of one example.  The cross entropy is not an integer; it is
\* modelled by the margin between the largest logit and the logit of the
\* label, which like it is never negative and grows as the label's logit
\* falls behind.
ExampleLoss(row, y) == row[ArgMaxRow(row) + 1] - row[y + 1]

RECURSIVE SumLoss(_, _, _)
SumLoss(logits, y, k) ==
    IF k = 0 THEN 0
    ELSE SumLoss(logits, y, k - 1) + ExampleLoss(logits[k - 1], y[k])

\* criterion(logits, data.y) with the default reduction: the mean of the
\* losses of the examples of the batch.
criterion(logits, y) ==
    IF NumRows(logits) # Len(y) THEN Raise("ValueError")
    ELSE IF \E k \in 1..Len(y) : y[k] < 0 \/ y[k] >= Len(logits[0])
    THEN Raise("IndexError")
    ELSE Ok(Rat(SumLoss(logits, y, Len(y)), Len(y)))

\* The gradient of the loss of a batch with respect to the bias of the
\* classifier, per class: the examples predicted as the class less the
\* examples labelled with it (softmax taken at its arg-max).  The gradients
\* of the other parameters need real arithmetic and are not modelled.
BiasGrad(logits, y) ==
    [c \in 1..Len(logits[0]) |->
        Cardinality({b \in DOMAIN logits : ArgMaxRow(logits[b]) = c - 1})
        - Cardinality({k \in 1..Len(y) : y[k] = c - 1})]

\* A reset that leaves the gradients as they are.
ZeroGradKeeps(m) == m

\* A reset that clears the bias of the classifier instead of its gradient.
ZeroGradClearsBias(m) ==
    [m EXCEPT !.grad = NoGrad,
              !.classifier.bias = [c \in 1..Len(@) |-> 0]]

\* optimizer.zero_grad(): the gradients of all parameters are reset.
zero_grad(m) == [m EXCEPT !.grad = NoGrad]

\* loss.backward(): the gradient of the batch is added to the gradients
\* accumulated so far; tag names the batch.
backward(m, logits, y, tag) ==
    LET g == BiasGrad(logits, y)
    IN [m EXCEPT !.grad =
          [set |-> TRUE,
           bias |-> IF m.grad.set
                    THEN [c \in 1..Len(g) |-> m.grad.bias[c] + g[c]]
                    ELSE g,
           from |-> Append(m.grad.from, tag)]]

Sign(x) == IF x > 0 THEN 1 ELSE IF x < 0 THEN -1 ELSE 0

\* optimizer.step(): every parameter that has a gradient moves against the
\* sign of its gradient, by one unit (Adam's first step moves a parameter
\* by lr against the sign of its gradient; the moment estimates of the
\* later steps are not modelled).
Adam_step(m) ==
    IF ~m.grad.set THEN m
    ELSE [m EXCEPT !.classifier.bias =
            [c \in 1..Len(@) |-> @[c] - Sign(m.grad.bias[c])]]

\* Adding the batch mean to the sum as it is.
AccumulateMean(total_loss, loss, num_graphs) == RatAdd(total_loss, loss)

\* total_loss += float(loss) * data.num_graphs (line 515)
accumulate_loss(total_loss, loss, num_graphs) ==
    RatAdd(total_loss, RatTimes(loss, num_graphs))

\* int((pred == data.y).sum()) (line 531)
count_correct(pred, y) == Cardinality({k \in 1..Len(y) : pred[k - 1] = y[k]})

\* The learned values of a model: the weights and biases of conv1, conv2
\* and the classifier.
Params(m) ==
    IF m.bound THEN <<m.conv1.mlp, m.conv2.mlp, m.classifier>> ELSE <<>>

-----------------------------------------------------------------------------
(* The cells of the notebook, run from top to bottom.                      *)

\* The names the cells below do not touch.
callers == <<layer, layerCall, netCall>>
datasets == <<dataset, train_dataset, test_dataset>>

\* Line 108: dataset = ModelNet(root='data', name='10', train=True,
\* force_reload=True); the number of classes is that of the data on disk.
LoadDataset(num_classes) ==
    /\ pc = "108"
    /\ dataset' = ModelNet(TRUE, FALSE, FALSE, num_classes)
    /\ pc' = "129"
    /\ UNCHANGED <<layer, layerCall, model, netCall, train_dataset,
                   test_dataset, loads, epoch, pending, data, trainer>>

\* Lines 129-188: dataset[0] is printed and plotted.
InspectObject ==
    /\ pc = "129"
    /\ \E draw \in Draws(dataset) :
          LET d == GetItem(dataset, 0, draw)
          IN /\ numpy(d).ok
             /\ loads' = loads \cup {Load("dataset", pc, 0, d)}
    /\ pc' = "210"
    /\ UNCHANGED <<layer, layerCall, model, netCall, dataset, train_dataset,
                   test_dataset, epoch, pending, data, trainer>>

\* Lines 210-216: device = torch.device('cuda' if torch.cuda.is_available()
\* else 'cpu'), which one depends on the machine; the positions of
\* dataset[0] are moved to it and their device is printed.
SelectDevice(dev) ==
    /\ pc = "210"
    /\ device' = dev
    /\ \E draw \in Draws(dataset) :
          loads' = loads \cup {Load("dataset", pc, 0, GetItem(dataset, 0, draw))}
    /\ pc' = "274"
    /\ UNCHANGED <<callers, datasets, model, epoch, pending, data, optimizer,
                   frame, report, fault>>

\* Lines 274 and 276: train_dataset and test_dataset are constructed with
\* pre_transform=pre_transform and no transform argument.
LoadSplits(num_classes) ==
    /\ pc = "274"
    /\ train_dataset' = ModelNet(TRUE, FALSE, TRUE, dataset.num_classes)
    /\ test_dataset' = ModelNet(FALSE, FALSE, TRUE, num_classes)
    /\ pc' = "295"
    /\ UNCHANGED <<layer, layerCall, model, netCall, dataset, loads, epoch,
                   pending, data, trainer>>

\* Lines 294-295: train_dataset[index] is plotted, for an index the reader
\* picks.
PlotCloud(index) ==
    /\ pc = "295"
    /\ \E draw \in Draws(train_dataset) :
          LET d == GetItem(train_dataset, index, draw)
          IN /\ numpy(d).ok
             /\ loads' = loads \cup {Load("train_dataset", pc, index, d)}
    /\ pc' = "448"
    /\ UNCHANGED <<layer, layerCall, model, netCall, dataset, train_dataset,
                   test_dataset, epoch, pending, data, trainer>>

\* Line 448: model = PointNet().
DefineModel(seed) ==
    /\ pc = "448"
    /\ LET r == PointNet_init(<<>>, dataset, seed)
       IN r.ok /\ model' = r.val
    /\ pc' = "486"
    /\ UNCHANGED <<layer, layerCall, netCall, dataset, train_dataset,
                   test_dataset, loads, epoch, pending, data, trainer>>

\* Lines 486-491: model = PointNet().to(device), a new model for training,
\* and its optimizer.
SetupTraining(seed) ==
    /\ pc = "486"
    /\ LET r == PointNet_init(<<>>, dataset, seed)
       IN r.ok /\ model' = to(r.val, device)
    /\ optimizer' = Adam
    /\ pc' = "536"
    /\ UNCHANGED <<layer, layerCall, netCall, dataset, train_dataset,
                   test_dataset, loads, epoch, pending, data, device, frame,
                   report, fault>>

\* Line 536: for epoch in range(1, MaxEpochs + 1); the body calls train()
\* (line 537), whose loop iterates over train_loader from its start; after
\* the last epoch the next cell runs.
EpochLoop ==
    /\ pc = "536"
    /\ IF epoch < MaxEpochs
       THEN /\ epoch' = epoch + 1
            /\ pending' = 0..(TrainSize - 1)
            /\ pc' = "496"
       ELSE /\ pc' = "559"
            /\ UNCHANGED <<epoch, pending>>
    /\ UNCHANGED <<layer, layerCall, model, netCall, dataset, train_dataset,
                   test_dataset, loads, data, trainer>>

\* Lines 496-499: model.train(); total_loss = 0.
TrainBegin ==
    /\ pc = "496"
    /\ model' = model_train(model)
    /\ frame' = [NoFrame EXCEPT !.fn = "train"]
    /\ pc' = "500"
    /\ UNCHANGED <<callers, datasets, loads, epoch, pending, data, device,
                   optimizer, report, fault>>

\* Line 500: for data in train_loader.  The loader (shuffle=True) loads the
\* next BatchSize objects in a random order, fewer when fewer are left, and
\* collates them; when none is left the loop ends.
TrainLoaderNext ==
    /\ pc = "500"
    /\ \/ /\ pending # {}
          /\ \E q \in OrderedPicks(pending,
                                   Min(BatchSize, Cardinality(pending))) :
                \E draws \in [1..Len(q) -> Draws(train_dataset)] :
                   LET items == [k \in 1..Len(q) |->
                                   GetItem(train_dataset, q[k], draws[k])]
                   IN /\ data' = Collate(items)
                      /\ loads' = loads \cup
                            {Load("train_dataset", pc, q[k], items[k]) :
                                k \in 1..Len(q)}
                      /\ pending' = pending \ {q[k] : k \in 1..Len(q)}
                      /\ frame' = [frame EXCEPT !.batch = q]
          /\ pc' = "502"
       \/ /\ pending = {}
          /\ pc' = "517"
          /\ UNCHANGED <<loads, pending, data, frame>>
    /\ UNCHANGED <<layer, layerCall, model, netCall, dataset, train_dataset,
                   test_dataset, epoch, device, optimizer, report, fault>>

\* Line 502: optimizer.zero_grad()
ZeroGrad ==
    /\ pc = "502"
    /\ model' = zero_grad(model)
    /\ optimizer' = [optimizer EXCEPT !.since = Append(@, "zero_grad")]
    /\ pc' = "503"
    /\ UNCHANGED <<callers, datasets, loads, epoch, pending, data, device,
                   frame, report, fault>>

\* Line 503: data = data.to(device)
TrainToDevice ==
    /\ pc = "503"
    /\ data' = to(data, device)
    /\ pc' = "506"
    /\ UNCHANGED <<callers, datasets, model, loads, epoch, pending, trainer>>

\* Line 506: logits = model(data.pos, data.edge_index, data.batch)
TrainForward ==
    /\ pc = "506"
    /\ LET r == Call(model, data)
       IN IF r.ok
          THEN /\ frame' = [frame EXCEPT !.logits = r.val]
               /\ optimizer' = [optimizer EXCEPT !.since = Append(@, "forward")]
               /\ pc' = "508"
               /\ fault' = fault
          ELSE /\ fault' = r.err
               /\ pc' = "stopped"
               /\ UNCHANGED <<frame, optimizer>>
    /\ UNCHANGED <<callers, datasets, model, loads, epoch, pending, data,
                   device, report>>

\* Line 508: loss = criterion(logits, data.y)
ComputeLoss ==
    /\ pc = "508"
    /\ LET r == criterion(frame.logits, data.y)
       IN IF r.ok
          THEN /\ frame' =
                    [frame EXCEPT
                       !.loss = r.val,
                       !.log = @ \cup
                          {[batch |-> frame.batch,
                            losses |-> [k \in 1..Len(data.y) |->
                                          ExampleLoss(frame.logits[k - 1],
                                                      data.y[k])]]}]
               /\ optimizer' = [optimizer EXCEPT !.since = Append(@, "loss")]
               /\ pc' = "511"
               /\ fault' = fault
          ELSE /\ fault' = r.err
               /\ pc' = "stopped"
               /\ UNCHANGED <<frame, optimizer>>
    /\ UNCHANGED <<callers, datasets, model, loads, epoch, pending, data,
                   device, report>>

\* Line 511: loss.backward()
Backward ==
    /\ pc = "511"
    /\ model' = backward(model, frame.logits, data.y,
                         <<epoch, Cardinality(frame.log)>>)
    /\ optimizer' = [optimizer EXCEPT !.since = Append(@, "backward")]
    /\ pc' = "513"
    /\ UNCHANGED <<callers, datasets, loads, epoch, pending, data, device,
                   frame, report, fault>>

\* Line 513: optimizer.step()
OptimizerStep ==
    /\ pc = "513"
    /\ model' = Adam_step(model)
    /\ optimizer' =
          [optimizer EXCEPT
             !.steps = @ + 1,
             !.moved = IF Params(Adam_step(model)) # Params(model)
                       THEN @ + 1 ELSE @,
             !.since = <<>>]
    /\ pc' = "515"
    /\ UNCHANGED <<callers, datasets, loads, epoch, pending, data, device,
                   frame, report, fault>>

\* Line 515: total_loss += float(loss) * data.num_graphs
AccumulateLoss ==
    /\ pc = "515"
    /\ frame' = [frame EXCEPT
                   !.total_loss = accumulate_loss(@, frame.loss,
                                                  data.num_graphs)]
    /\ pc' = "500"
    /\ UNCHANGED <<callers, datasets, model, loads, epoch, pending, data,
                   device, optimizer, report, fault>>

\* Lines 517 and 537: loss = total_loss / len(train_loader.dataset); the
\* local names of train() are gone, the log of its batches is kept.
TrainReturn ==
    /\ pc = "517"
    /\ report' = [report EXCEPT
                    !.loss = RatOver(frame.total_loss,
                                     NumRows(train_dataset.objects)),
                    !.trained = @ + 1]
    /\ frame' = [NoFrame EXCEPT !.log = frame.log]
    /\ data' = NoObject
    /\ pc' = "538"
    /\ UNCHANGED <<callers, datasets, model, loads, epoch, pending, device,
                   optimizer, fault>>

\* Lines 538 and 524-526: test() is called; model.eval(); total_correct = 0.
TestBegin ==
    /\ pc = "538"
    /\ model' = model_eval(model)
    /\ frame' = [NoFrame EXCEPT !.fn = "test"]
    /\ pc' = "527"
    /\ UNCHANGED <<callers, datasets, loads, epoch, pending, data, device,
                   optimizer, report, fault>>

\* Line 527: for data in test_loader.  The loader (no shuffle) loads the
\* next BatchSize objects in the order of the dataset, fewer when fewer are
\* left, and collates them; when none is left the loop ends.
TestLoaderNext ==
    /\ pc = "527"
    /\ LET size == NumRows(test_dataset.objects)
           n == Min(BatchSize, size - frame.next)
           q == [k \in 1..n |-> frame.next + k - 1]
       IN \/ /\ frame.next < size
             /\ \E draws \in [1..n -> Draws(test_dataset)] :
                   LET items == [k \in 1..n |->
                                   GetItem(test_dataset, q[k], draws[k])]
                   IN /\ data' = Collate(items)
                      /\ loads' = loads \cup
                            {Load("test_dataset", pc, q[k], items[k]) :
                                k \in 1..n}
             /\ frame' = [frame EXCEPT !.next = @ + n, !.batch = q]
             /\ pc' = "528"
          \/ /\ frame.next >= size
             /\ pc' = "533"
             /\ UNCHANGED <<loads, data, frame>>
    /\ UNCHANGED <<callers, datasets, model, epoch, pending, device,
                   optimizer, report, fault>>

\* Line 528: data = data.to(device)
TestToDevice ==
    /\ pc = "528"
    /\ data' = to(data, device)
    /\ pc' = "529"
    /\ UNCHANGED <<callers, datasets, model, loads, epoch, pending, trainer>>

\* Line 529: logits = model(data.pos, data.edge_index, data.batch)
TestForward ==
    /\ pc = "529"
    /\ LET r == Call(model, data)
       IN IF r.ok
          THEN /\ frame' = [frame EXCEPT !.logits = r.val]
               /\ pc' = "530"
               /\ fault' = fault
          ELSE /\ fault' = r.err
               /\ pc' = "stopped"
               /\ frame' = frame
    /\ UNCHANGED <<callers, datasets, model, loads, epoch, pending, data,
                   device, optimizer, report>>

\* Line 530: pred = logits.argmax(dim=-1)
TestPredict ==
    /\ pc = "530"
    /\ frame' = [frame EXCEPT !.pred = argmax(frame.logits)]
    /\ pc' = "531"
    /\ UNCHANGED <<callers, datasets, model, loads, epoch, pending, data,
                   device, optimizer, report, fault>>

\* Line 531: total_correct += int((pred == data.y).sum())
AccumulateCorrect ==
    /\ pc = "531"
    /\ frame' = [frame EXCEPT
                   !.total_correct = @ + count_correct(frame.pred, data.y)]
    /\ pc' = "527"
    /\ UNCHANGED <<callers, datasets, model, loads, epoch, pending, data,
                   device, optimizer, report, fault>>

\* Lines 533 and 538: test_acc = total_correct / len(test_loader.dataset);
\* the local names of test() are gone.
TestReturn ==
    /\ pc = "533"
    /\ report' = [report EXCEPT
                    !.test_acc = Rat(frame.total_correct,
                                     NumRows(test_dataset.objects)),
                    !.tested = @ + 1]
    /\ frame' = NoFrame
    /\ data' = NoObject
    /\ pc' = "539"
    /\ UNCHANGED <<callers, datasets, model, loads, epoch, pending, device,
                   optimizer, fault>>

\* Line 539: the statistics of the epoch are written out.
WriteEpoch ==
    /\ pc = "539"
    /\ pc' = "536"
    /\ UNCHANGED <<callers, datasets, model, loads, epoch, pending, data,
                   trainer>>

\* Lines 558-559: data = test_dataset[0]
PredictLoad ==
    /\ pc = "559"
    /\ \E draw \in Draws(test_dataset) :
          LET d == GetItem(test_dataset, 0, draw)
          IN /\ data' = d
             /\ loads' = loads \cup {Load("test_dataset", pc, 0, d)}
    /\ pc' = "560"
    /\ UNCHANGED <<callers, datasets, model, epoch, pending, trainer>>

\* Line 560: data = data.to(device)
PredictToDevice ==
    /\ pc = "560"
    /\ data' = to(data, device)
    /\ pc' = "561"
    /\ UNCHANGED <<callers, datasets, model, loads, epoch, pending, trainer>>

\* Lines 561-562: logits = model(data.pos, data.edge_index, data.batch);
\* pred = logits.argmax(dim=-1)
PredictForward ==
    /\ pc = "561"
    /\ LET r == Call(model, data)
       IN IF r.ok
          THEN /\ frame' = [frame EXCEPT !.logits = r.val,
                                         !.pred = argmax(r.val)]
               /\ pc' = "564"
               /\ fault' = fault
          ELSE /\ fault' = r.err
               /\ pc' = "stopped"
               /\ frame' = frame
    /\ UNCHANGED <<callers, datasets, model, loads, epoch, pending, data,
                   device, optimizer, report>>

\* Line 564: mp.plot(data.pos.numpy(), ...)
PredictPlot ==
    /\ pc = "564"
    /\ LET r == numpy(data)
       IN IF r.ok
          THEN pc' = "done" /\ fault' = fault
          ELSE pc' = "stopped" /\ fault' = r.err
    /\ UNCHANGED <<callers, datasets, model, loads, epoch, pending, data,
                   device, optimizer, frame, report>>

\* The kernel has just started: no name is bound.
Init ==
    /\ layer = NoObject
    /\ layerCall = NoCall
    /\ model = NoObject
    /\ netCall = NoCall
    /\ dataset = NoObject
    /\ train_dataset = NoObject
    /\ test_dataset = NoObject
    /\ loads = {}
    /\ pc = "108"
    /\ epoch = 0
    /\ pending = {}
    /\ data = NoObject
    /\ device = "unset"
    /\ optimizer = NoObject
    /\ frame = NoFrame
    /\ report = NoReport
    /\ fault = ""

\* The steps of train(), of test(), of the epoch loop and of the prediction
\* cell.
NextTrain ==
    \/ EpochLoop
    \/ TrainBegin
    \/ TrainLoaderNext
    \/ ZeroGrad
    \/ TrainToDevice
    \/ TrainForward
    \/ ComputeLoss
    \/ Backward
    \/ OptimizerStep
    \/ AccumulateLoss
    \/ TrainReturn
    \/ TestBegin
    \/ TestLoaderNext
    \/ TestToDevice
    \/ TestForward
    \/ TestPredict
    \/ AccumulateCorrect
    \/ TestReturn
    \/ WriteEpoch
    \/ PredictLoad
    \/ PredictToDevice
    \/ PredictForward
    \/ PredictPlot

Next ==
    \/ \E num_classes \in 1..MaxClasses : LoadDataset(num_classes)
    \/ InspectObject
    \/ \E dev \in Devices : SelectDevice(dev)
    \/ \E num_classes \in 1..MaxClasses : LoadSplits(num_classes)
    \/ \E index \in 0..(TrainSize - 1) : PlotCloud(index)
    \/ \E seed \in Seeds : DefineModel(seed)
    \/ \E seed \in Seeds : SetupTraining(seed)
    \/ NextTrain

Spec == Init /\ [][Next]_vars

\* The notebook has been run up to the epoch loop on data of the classes
\* and with the initial weights of one of NetModels, on either device.
InitTrain ==
    /\ layer = NoObject
    /\ layerCall = NoCall
    /\ netCall = NoCall
    /\ \E m \in NetModels, dev \in Devices :
          /\ dataset = ModelNet(TRUE, FALSE, FALSE, m[1])
          /\ train_dataset = ModelNet(TRUE, FALSE, TRUE, m[1])
          /\ test_dataset = ModelNet(FALSE, FALSE, TRUE, m[1])
          /\ device = dev
          /\ model = to(PointNet_init(<<>>, dataset, m[2]).val, dev)
    /\ loads = {Load("dataset", "129", 0, GetItem(dataset, 0, <<>>)),
                Load("dataset", "210", 0, GetItem(dataset, 0, <<>>)),
                Load("train_dataset", "295", 0,
                     GetItem(train_dataset, 0, <<>>))}
    /\ pc = "536"
    /\ epoch = 0
    /\ pending = {}
    /\ data = NoObject
    /\ optimizer = Adam
    /\ frame = NoFrame
    /\ report = NoReport
    /\ fault = ""

SpecTrain == InitTrain /\ [][NextTrain]_vars

\* C9 (as claimed): the size of the classifier head is the class count the
\* caller passes to the constructor, whatever dataset the global name
\* `dataset` is bound to: PointNet(k) yields a head of k classes, and
\* constructing as the notebook does under another binding of `dataset`
\* yields a head of the same size as the model's.
C9_HeadSizeFromArgument ==
    model.bound =>
        /\ \A k \in 1..MaxClasses :
              LET r == PointNet_init(<<k>>, dataset, 1)
              IN r.ok /\ r.val.classifier.out_features = k
        /\ \A k \in 1..MaxClasses :
              PointNet_init(<<>>, DatasetWithClasses(k), 1)
                  .val.classifier.out_features
              = model.classifier.out_features

\* C10 (as claimed): every object that train_loader loads during training
\* has been pre-transformed once, when the dataset was processed, and then
\* randomly scaled and rotated about the three axes by `transform` at the
\* load.
C10_TrainingLoadsAugmented ==
    \A l \in loads :
        (l.source = "train_dataset" /\ l.at = "500") =>
            /\ l.d.history = PreTransformNames \o TransformNames
            /\ l.d.aug.applied

-----------------------------------------------------------------------------
(* Properties of the training and of the cells after it.                   *)

\* C11: while the notebook trains, tests and predicts, the weights and
\* biases of conv1, conv2 and the classifier of the model change in no step
\* other than optimizer.step (line 513); the forward passes, a run of test()
\* and the prediction cell leave them as they are.  (Lines 448 and 486 bind
\* `model` to a new object; they change no parameter of an existing one.)
C11_ParametersChangeOnlyInStep ==
    [][(model.bound /\ pc \notin {"448", "486", "513"})
          => Params(model)' = Params(model)]_vars

\* The notebook has run to its end, test() has returned in every epoch and
\* some optimizer step has changed a parameter.
C11_Witness ==
    /\ pc = "done"
    /\ report.tested = MaxEpochs
    /\ optimizer.moved > 0
    /\ frame.logits # <<>>

\* The number of batches train_loader yields in one epoch.
BatchesPerEpoch == (TrainSize + BatchSize - 1) \div BatchSize

\* C12: when optimizer.step is about to run, the operations of train()
\* since the previous step are exactly zero_grad, forward, loss, backward,
\* once each and in this order, and the gradients hold the backward pass of
\* the current batch and of no other; at the head of the loop every batch
\* drawn so far has had exactly one step.
C12_TrainStepOrder ==
    /\ pc = "513" =>
          /\ optimizer.since = <<"zero_grad", "forward", "loss", "backward">>
          /\ model.grad.from = <<<<epoch, Cardinality(frame.log)>>>>
    /\ pc = "500" =>
          /\ optimizer.since = <<>>
          /\ optimizer.steps =
                (epoch - 1) * BatchesPerEpoch + Cardinality(frame.log)
          /\ Cardinality(frame.log) =
                (TrainSize - Cardinality(pending) + BatchSize - 1)
                   \div BatchSize

\* The step of the second batch of the second epoch is about to run.
C12_Witness ==
    /\ pc = "513"
    /\ epoch = 2
    /\ Cardinality(frame.log) = 2
    /\ optimizer.steps = BatchesPerEpoch + 1

RECURSIVE SumSeq(_, _)
SumSeq(q, k) == IF k = 0 THEN 0 ELSE q[k] + SumSeq(q, k - 1)

\* The sum of the losses of all examples of a log of batches.
RECURSIVE LogSum(_)
LogSum(log) ==
    IF log = {} THEN 0
    ELSE LET e == CHOOSE x \in log : TRUE
         IN SumSeq(e.losses, Len(e.losses)) + LogSum(log \ {e})

\* The label the model predicts for object k of the test set passed alone.
PredictedAlone(k) ==
    ArgMaxRow(PointNet_forward(model, test_dataset.objects[k].pos,
                               test_dataset.objects[k].edge_index,
                               BatchNone).val[0])

\* C16: when train() has returned, every training object has been in
\* exactly one batch of the call and `loss` is the sum of the losses of all
\* examples divided by the size of the training set; when test() has
\* returned, `test_acc` is the number of test objects whose arg-max logit is
\* their label divided by the size of the test set, between 0 and 1.
C16_EpochStatistics ==
    /\ pc = "538" =>
          /\ \A i \in 0..(TrainSize - 1) :
                Cardinality({<<e, k>> \in frame.log \X (1..BatchSize) :
                                k <= Len(e.batch) /\ e.batch[k] = i}) = 1
          /\ report.loss = Rat(LogSum(frame.log), TrainSize)
    /\ pc = "539" =>
          /\ report.test_acc =
                Rat(Cardinality({k \in 0..(TrainSize - 1) :
                                   PredictedAlone(k)
                                      = test_dataset.objects[k].y}),
                    TrainSize)
          /\ RatLeq(Rat(0, 1), report.test_acc)
          /\ RatLeq(report.test_acc, Rat(1, 1))

\* The second epoch has finished; its last training batch was smaller than
\* batch_size, the loss is not zero and some but not all test objects are
\* classified correctly.
C16_Witness ==
    /\ pc = "539"
    /\ epoch = 2
    /\ TrainSize % BatchSize # 0
    /\ report.loss.num > 0
    /\ report.test_acc.num > 0
    /\ report.test_acc.den > 1

\* C15 (as claimed): on either device the tensor whose numpy() the
\* prediction cell calls (line 564) is on the CPU, and no cell stops with
\* the error of converting a tensor that is not.
C15_NumpyOnCpu ==
    /\ pc = "564" => data.device = "cpu"
    /\ fault # "TypeError"

====
